---- MODULE Spec2Model ----
(***************************************************************************)
(* Click Speed Tester (src/App.tsx): the session controller of the         *)
(* ClickSpeedTester component.                                             *)
(*                                                                         *)
(* The component's state is the three useState cells (running, clicks,     *)
(* remaining) and the two refs (timerRef, endAtRef).  The JavaScript       *)
(* runtime contributes the wall clock (Date.now) and the table of live     *)
(* interval timers (setInterval / clearInterval).  Every handler runs to   *)
(* completion on the single JS thread and React commits its state updates  *)
(* before the next event is dispatched, so one action is one handler.      *)
(*                                                                         *)
(* start, reset and handleClick are modelled as the operations they are:   *)
(* callable in every state.  The `disabled` props of the Pressables only   *)
(* remove behaviours (start while running, a press while not running).     *)
(*                                                                         *)
(* The clock is taken to be non-decreasing.                                *)
(***************************************************************************)
EXTENDS Integers, FiniteSets, TLC

\* src/App.tsx:6
DURATION_MS == 5000

\* src/App.tsx:67, the period handed to setInterval
TICK_MS == 50

\* Bounds of the exploration.
MaxNow == 11000
MaxClicks == 3
MaxTimers == 3

\* The amounts by which the clock advances between two events.  Four steps
\* of 1250 land exactly on the end of a session started at 0; a step of
\* 1260 lands a few milliseconds after it.
Deltas == {1250, 1260}

TimerIds == 1..MaxTimers

\* timerRef.current === null
None == 0

VARIABLES
    mounted,    \* the component is mounted
    running,    \* useState(false)
    clicks,     \* useState(0)
    remaining,  \* useState(DURATION_MS)
    timerRef,   \* useRef(null): handle of the interval armed by start
    endAtRef,   \* useRef(0): wall-clock time at which the session ends
    timers,     \* runtime: live interval handle -> earliest next firing time
    now,        \* runtime: Date.now()
    ev,         \* observation: the last event and the state it was applied to
    session     \* observation: when and from which phase start() ran last

vars == <<mounted, running, clicks, remaining, timerRef, endAtRef, timers, now, ev, session>>

\* The component state the handlers read and write, as one record.
St ==
    [running |-> running, clicks |-> clicks, remaining |-> remaining,
     timerRef |-> timerRef, endAtRef |-> endAtRef, timers |-> timers]

NoTimers == [i \in {} |-> 0]

\* State after construction (the useState / useRef initial values).
InitSt ==
    [running |-> FALSE, clicks |-> 0, remaining |-> DURATION_MS,
     timerRef |-> None, endAtRef |-> 0, timers |-> NoTimers]

Max(a, b) == IF a >= b THEN a ELSE b

\* Left without the clamp at 0.
Left_NoClamp(endAt, t) == endAt - t

\* Math.max(0, endAtRef.current - Date.now())
Left(endAt, t) == Max(0, endAt - t)

\* The phase the component renders: running, or finished when
\* `!running && remaining === 0`, otherwise idle.
PhaseOf(s) ==
    IF s.running THEN "Running"
    ELSE IF s.remaining = 0 THEN "Finished"
    ELSE "Idle"

Phase == PhaseOf(St)

\* clearInterval(id): the handle stops being live; unknown handles are ignored.
clearInterval(tm, id) == [j \in (DOMAIN tm) \ {id} |-> tm[j]]

\* The handle setInterval returns: one that is not live.
NewTimerId(tm) == CHOOSE i \in TimerIds : i \notin DOMAIN tm /\ \A j \in TimerIds : j < i => j \in DOMAIN tm

\* setInterval(cb, TICK_MS) at time t: the first firing is TICK_MS later.
setInterval(tm, id, t) == [j \in (DOMAIN tm) \cup {id} |-> IF j = id THEN t + TICK_MS ELSE tm[j]]

\* start that arms a new interval without cancelling the previous one.
start_NoClear(s, t) ==
    LET id == NewTimerId(s.timers)
    IN  [running |-> TRUE, clicks |-> 0, remaining |-> DURATION_MS,
         timerRef |-> id, endAtRef |-> t + DURATION_MS,
         timers |-> setInterval(s.timers, id, t)]

\* start that does not zero the click counter.
start_KeepClicks(s, t) ==
    LET cleared == IF s.timerRef # None THEN clearInterval(s.timers, s.timerRef) ELSE s.timers
        id == NewTimerId(cleared)
    IN  [running |-> TRUE, clicks |-> s.clicks, remaining |-> DURATION_MS,
         timerRef |-> id, endAtRef |-> t + DURATION_MS,
         timers |-> setInterval(cleared, id, t)]

\* start that does not recompute endAtRef.
start_StaleEndAt(s, t) ==
    LET cleared == IF s.timerRef # None THEN clearInterval(s.timers, s.timerRef) ELSE s.timers
        id == NewTimerId(cleared)
    IN  [running |-> TRUE, clicks |-> 0, remaining |-> DURATION_MS,
         timerRef |-> id, endAtRef |-> s.endAtRef,
         timers |-> setInterval(cleared, id, t)]

\* start(), called at time t.
start(s, t) ==
    LET cleared == IF s.timerRef # None THEN clearInterval(s.timers, s.timerRef) ELSE s.timers
        id == NewTimerId(cleared)
    IN  [running |-> TRUE, clicks |-> 0, remaining |-> DURATION_MS,
         timerRef |-> id, endAtRef |-> t + DURATION_MS,
         timers |-> setInterval(cleared, id, t)]

\* Interval callback that only refreshes remaining and never ends the session.
tick_NeverFinish(s, t) ==
    [s EXCEPT !.remaining = Left(s.endAtRef, t)]

\* Interval callback that ends the session but leaves the interval armed.
tick_NoCancel(s, t) ==
    LET left == Left(s.endAtRef, t)
    IN  IF left <= 0
        THEN [s EXCEPT !.remaining = left, !.running = FALSE]
        ELSE [s EXCEPT !.remaining = left]

\* Interval callback that counts remaining down by one period per firing
\* instead of reading the clock.
tick_NaiveDecrement(s, t) ==
    LET left == Max(0, s.remaining - TICK_MS)
    IN  IF left <= 0
        THEN [s EXCEPT !.remaining = left,
                       !.running = FALSE,
                       !.timers = IF s.timerRef # None THEN clearInterval(s.timers, s.timerRef) ELSE s.timers,
                       !.timerRef = None]
        ELSE [s EXCEPT !.remaining = left]

\* Interval callback that ends the session on `left < 0` instead of `left <= 0`.
tick_StrictExpiry(s, t) ==
    LET left == Left(s.endAtRef, t)
    IN  IF left < 0
        THEN [s EXCEPT !.remaining = left,
                       !.running = FALSE,
                       !.timers = IF s.timerRef # None THEN clearInterval(s.timers, s.timerRef) ELSE s.timers,
                       !.timerRef = None]
        ELSE [s EXCEPT !.remaining = left]

\* Interval callback that computes the elapsed time instead of the time left.
tick_Elapsed(s, t) ==
    LET left == Max(0, t - (s.endAtRef - DURATION_MS))
    IN  IF left <= 0
        THEN [s EXCEPT !.remaining = left,
                       !.running = FALSE,
                       !.timers = IF s.timerRef # None THEN clearInterval(s.timers, s.timerRef) ELSE s.timers,
                       !.timerRef = None]
        ELSE [s EXCEPT !.remaining = left]

\* The interval callback, run at time t.
tick(s, t) ==
    LET left == Left(s.endAtRef, t)
    IN  IF left <= 0
        THEN [s EXCEPT !.remaining = left,
                       !.running = FALSE,
                       !.timers = IF s.timerRef # None THEN clearInterval(s.timers, s.timerRef) ELSE s.timers,
                       !.timerRef = None]
        ELSE [s EXCEPT !.remaining = left]

\* reset that forgets the handle without cancelling the interval.
reset_KeepTimer(s) ==
    [s EXCEPT !.timerRef = None,
              !.running = FALSE,
              !.clicks = 0,
              !.remaining = DURATION_MS]

\* reset that zeroes remaining instead of restoring the full duration.
reset_ZeroRemaining(s) ==
    [s EXCEPT !.timers = IF s.timerRef # None THEN clearInterval(s.timers, s.timerRef) ELSE s.timers,
              !.timerRef = None,
              !.running = FALSE,
              !.clicks = 0,
              !.remaining = 0]

\* reset()
reset(s) ==
    [s EXCEPT !.timers = IF s.timerRef # None THEN clearInterval(s.timers, s.timerRef) ELSE s.timers,
              !.timerRef = None,
              !.running = FALSE,
              !.clicks = 0,
              !.remaining = DURATION_MS]

\* handleClick without the `if (!running) return` guard.
handleClick_NoGuard(s) ==
    [s EXCEPT !.clicks = s.clicks + 1]

\* handleClick that counts every press twice.
handleClick_Double(s) ==
    IF ~s.running THEN s ELSE [s EXCEPT !.clicks = s.clicks + 2]

\* handleClick()
handleClick(s) ==
    IF ~s.running THEN s ELSE [s EXCEPT !.clicks = s.clicks + 1]

\* Cleanup that leaves the interval armed.
cleanup_NoClear(s) == s

\* The cleanup of useEffect, run when the component unmounts.
cleanup(s) ==
    [s EXCEPT !.timers = IF s.timerRef # None THEN clearInterval(s.timers, s.timerRef) ELSE s.timers]

\* (num / den).toFixed(2), as a whole number of hundredths (round to nearest).
ToFixed2(num, den) == (2 * 100 * num + den) \div (2 * den)

\* cps computed over milliseconds instead of seconds.
cps_PerMs(c) == ToFixed2(c, DURATION_MS)

\* cps = (clicks / (DURATION_MS / 1000)).toFixed(2), in hundredths.
cps(c) == ToFixed2(c * 1000, DURATION_MS)

\* The summary line is rendered: `!running && remaining === 0`.
SummaryShown(s) == ~s.running /\ s.remaining = 0

\* Commit a handler's result to the component state.
Commit(s) ==
    /\ running' = s.running
    /\ clicks' = s.clicks
    /\ remaining' = s.remaining
    /\ timerRef' = s.timerRef
    /\ endAtRef' = s.endAtRef
    /\ timers' = s.timers

Init ==
    /\ mounted = TRUE
    /\ running = InitSt.running
    /\ clicks = InitSt.clicks
    /\ remaining = InitSt.remaining
    /\ timerRef = InitSt.timerRef
    /\ endAtRef = InitSt.endAtRef
    /\ timers = InitSt.timers
    /\ now = 0
    /\ ev = [op |-> "init", pre |-> InitSt]
    /\ session = [startedAt |-> 0, from |-> "none"]

\* The user presses "Start Test".
Start ==
    /\ mounted
    /\ now + DURATION_MS <= MaxNow
    /\ Cardinality(DOMAIN timers) < MaxTimers
    /\ Commit(start(St, now))
    /\ ev' = [op |-> "start", pre |-> St]
    /\ session' = [startedAt |-> now, from |-> Phase]
    /\ UNCHANGED <<mounted, now>>

\* The runtime fires the live interval i, which is due.
Tick(i) ==
    /\ i \in DOMAIN timers
    /\ now >= timers[i]
    /\ LET s == tick(St, now)
       IN  Commit([s EXCEPT !.timers = [j \in DOMAIN s.timers |-> IF j = i THEN now + TICK_MS ELSE s.timers[j]]])
    /\ ev' = [op |-> "tick", pre |-> St]
    /\ UNCHANGED <<mounted, now, session>>

\* The user presses "Reset".
Reset ==
    /\ mounted
    /\ Commit(reset(St))
    /\ ev' = [op |-> "reset", pre |-> St]
    /\ UNCHANGED <<mounted, now, session>>

\* The user presses the click area.
Tap ==
    /\ mounted
    /\ running => clicks < MaxClicks
    /\ Commit(handleClick(St))
    /\ ev' = [op |-> "tap", pre |-> St]
    /\ UNCHANGED <<mounted, now, session>>

\* The component is torn down.
Unmount ==
    /\ mounted
    /\ mounted' = FALSE
    /\ Commit(cleanup(St))
    /\ ev' = [op |-> "unmount", pre |-> St]
    /\ UNCHANGED <<now, session>>

\* Time passes.
Advance ==
    /\ \E d \in Deltas :
        /\ now + d <= MaxNow
        /\ now' = now + d
    /\ ev' = [op |-> "advance", pre |-> St]
    /\ UNCHANGED <<mounted, running, clicks, remaining, timerRef, endAtRef, timers, session>>

Next ==
    \/ Start
    \/ \E i \in TimerIds : Tick(i)
    \/ Reset
    \/ Tap
    \/ Unmount
    \/ Advance

Spec == Init /\ [][Next]_vars

\* The event loop keeps running: time passes and a due interval is fired.
LiveSpec == Spec /\ WF_vars(Advance) /\ WF_vars(\E i \in TimerIds : Tick(i))

TypeOK ==
    /\ mounted \in BOOLEAN
    /\ running \in BOOLEAN
    /\ clicks \in 0..MaxClicks
    /\ remaining \in Int
    /\ timerRef \in TimerIds \cup {None}
    /\ endAtRef \in 0..MaxNow
    /\ DOMAIN timers \subseteq TimerIds
    /\ now \in 0..MaxNow

(***************************************************************************)
(* Claims                                                                  *)
(***************************************************************************)

\* C1: a tap delivered when the session has logically finished (now is at or
\* past the endAtRef of the most recent start) never increments clicks, even
\* when the tick that detects the expiry has not fired yet.
C1_LateTapNeverCounts ==
    (ev.op = "tap" /\ session.from # "none" /\ now >= ev.pre.endAtRef)
        => clicks = ev.pre.clicks

\* C2: clicks is incremented only by a tap made while Running: a tick never
\* changes it, a tap while Idle or Finished changes nothing, and clicks goes
\* down only to 0 and only through start or reset.
C2_ClicksOnlyByTapWhileRunning ==
    /\ ev.op = "tick" => clicks = ev.pre.clicks
    /\ (ev.op = "tap" /\ PhaseOf(ev.pre) # "Running") => St = ev.pre
    /\ clicks > ev.pre.clicks =>
          ev.op = "tap" /\ PhaseOf(ev.pre) = "Running" /\ clicks = ev.pre.clicks + 1
    /\ clicks < ev.pre.clicks => ev.op \in {"start", "reset"} /\ clicks = 0

\* C2 witness: a tap was made in Finished with a non-zero count.
C2_Witness ==
    ev.op = "tap" /\ PhaseOf(ev.pre) = "Finished" /\ ev.pre.clicks > 0

\* C3: at most one interval timer is live in every reachable state, also
\* after start is called while a session is already running.
C3_AtMostOneTimer ==
    Cardinality(DOMAIN timers) <= 1

\* C3 witness: start was called while Running with a live timer.
C3_Witness ==
    /\ ev.op = "start"
    /\ PhaseOf(ev.pre) = "Running"
    /\ Cardinality(DOMAIN ev.pre.timers) = 1
    /\ Cardinality(DOMAIN timers) = 1

\* C4: remaining stays within [0, DURATION_MS] in every reachable state.
C4_RemainingInRange ==
    0 <= remaining /\ remaining <= DURATION_MS

\* C4 witness: a tick ran after the end of the session and clamped to 0.
C4_Witness ==
    ev.op = "tick" /\ now > ev.pre.endAtRef /\ ev.pre.remaining > 0 /\ remaining = 0

\* C5: start at time t yields, from every reachable state, what it yields
\* from the initial state: Running, clicks 0, remaining DURATION_MS,
\* endAtRef t + DURATION_MS and exactly one armed timer, held by timerRef.
C5_StartSupersedes ==
    LET a == start(St, now)
        b == start(InitSt, now)
    IN  /\ a.running = b.running
        /\ a.clicks = b.clicks
        /\ a.remaining = b.remaining
        /\ a.endAtRef = b.endAtRef
        /\ Cardinality(DOMAIN a.timers) = Cardinality(DOMAIN b.timers)
        /\ ev.op = "start" =>
              /\ Phase = "Running"
              /\ clicks = 0
              /\ remaining = DURATION_MS
              /\ endAtRef = now + DURATION_MS
              /\ Cardinality(DOMAIN timers) = 1
              /\ timerRef \in DOMAIN timers
              /\ timers[timerRef] = now + TICK_MS

\* C5 witness: start was called in Finished with a non-zero count.
C5_Witness ==
    ev.op = "start" /\ PhaseOf(ev.pre) = "Finished" /\ ev.pre.clicks > 0 /\ now > 0

\* C6: reset from any phase yields Idle, clicks 0, remaining DURATION_MS and
\* no armed timer: the observable state of the initial state.
C6_ResetRestoresInitial ==
    ev.op = "reset" =>
        /\ Phase = "Idle"
        /\ running = InitSt.running
        /\ clicks = InitSt.clicks
        /\ remaining = InitSt.remaining
        /\ timers = NoTimers
        /\ timerRef = None

\* C6 witness: reset was called in a running session with taps and a
\* partly elapsed countdown.
C6_Witness ==
    /\ ev.op = "reset"
    /\ PhaseOf(ev.pre) = "Running"
    /\ ev.pre.clicks > 0
    /\ ev.pre.remaining < DURATION_MS

\* C7: no session finishes early: in Finished at least DURATION_MS has
\* passed since the most recent start, and a tick of a running session
\* reads the endAtRef that start computed.
C7_NoEarlyFinish ==
    /\ Phase = "Finished" => now - session.startedAt >= DURATION_MS
    /\ (ev.op = "tick" /\ PhaseOf(ev.pre) = "Running")
          => ev.pre.endAtRef = session.startedAt + DURATION_MS

\* C7 witness: a session started from Finished has itself finished.
C7_Witness ==
    /\ ev.op = "tick"
    /\ PhaseOf(ev.pre) = "Running"
    /\ Phase = "Finished"
    /\ session.from = "Finished"

\* C8: once a session is running, with time passing and ticks firing, it
\* ends: in Finished with remaining 0 unless a reset (Idle) or the teardown
\* of the component intervenes.
C8_EventuallyFinished ==
    (mounted /\ running) ~> ((Phase = "Finished" /\ remaining = 0) \/ Phase = "Idle" \/ ~mounted)

\* C8 witness: a tick has moved a running session to Finished.
C8_Witness ==
    ev.op = "tick" /\ PhaseOf(ev.pre) = "Running" /\ Phase = "Finished" /\ remaining = 0

\* C9: the only step from Running to Finished is a tick that computes
\* left <= 0; reset goes to Idle, start and a tap stay in Running, and so
\* does a tick with left > 0.
C9_OnlyTickFinishes ==
    PhaseOf(ev.pre) = "Running" =>
        /\ Phase = "Finished" => ev.op = "tick" /\ Max(0, ev.pre.endAtRef - now) <= 0
        /\ ev.op = "reset" => Phase = "Idle"
        /\ ev.op \in {"start", "tap"} => Phase = "Running"
        /\ (ev.op = "tick" /\ now < ev.pre.endAtRef) => Phase = "Running"

\* C9 witness: a tick at exactly the end time moved Running to Finished.
C9_Witness ==
    /\ ev.op = "tick"
    /\ PhaseOf(ev.pre) = "Running"
    /\ now = ev.pre.endAtRef
    /\ Phase = "Finished"

\* C10: Finished is stable: the finishing tick cancels the interval, no tick
\* fires in Finished, and phase, remaining (0) and clicks stay as they are
\* until the next start or reset.
C10_FinishedStable ==
    /\ Phase = "Finished" => timers = NoTimers /\ timerRef = None
    /\ ev.op = "tick" => PhaseOf(ev.pre) # "Finished"
    /\ (PhaseOf(ev.pre) = "Finished" /\ ev.op \notin {"start", "reset"}) =>
          /\ Phase = "Finished"
          /\ remaining = 0
          /\ clicks = ev.pre.clicks

\* C10 witness: time passed in Finished with a non-zero count.
C10_Witness ==
    /\ ev.op = "advance"
    /\ PhaseOf(ev.pre) = "Finished"
    /\ clicks > 0
    /\ now >= endAtRef + TICK_MS

\* C11 as stated: while Running remaining always equals max(0, endAtRef - now),
\* once Finished it is 0 and while Idle it is DURATION_MS.
C11_RemainingTracksClock ==
    /\ Phase = "Running" => remaining = Max(0, endAtRef - now)
    /\ Phase = "Finished" => remaining = 0
    /\ Phase = "Idle" => remaining = DURATION_MS

\* C11 amended: while Running remaining equals max(0, endAtRef - now) right
\* after start and right after each tick, and between ticks it keeps that
\* value, so it is never below max(0, endAtRef - now); once Finished it is 0
\* and while Idle it is DURATION_MS.
C11_RemainingAsOfLastTick ==
    /\ Phase = "Running" =>
          /\ remaining >= Max(0, endAtRef - now)
          /\ ev.op \in {"start", "tick"} => remaining = Max(0, endAtRef - now)
          /\ ev.op \notin {"start", "tick"} => remaining = ev.pre.remaining
    /\ Phase = "Finished" => remaining = 0
    /\ Phase = "Idle" => remaining = DURATION_MS

\* C11 witness: time passed after a tick of a running session, so remaining
\* is the value of that tick and ahead of the clock.
C11_Witness ==
    /\ ev.op = "advance"
    /\ Phase = "Running"
    /\ remaining < DURATION_MS
    /\ remaining > Max(0, endAtRef - now)

\* C12: the summary is shown exactly in Finished: never at initialization,
\* after reset or while running, and always after the expiry tick; the rate
\* it shows is clicks over the fixed 5 seconds (5 * cps = clicks, here in
\* hundredths), whatever time has elapsed.
C12_SummaryOnlyFinished ==
    /\ SummaryShown(St) <=> Phase = "Finished"
    /\ ev.op \in {"init", "reset", "start"} => ~SummaryShown(St)
    /\ running => ~SummaryShown(St)
    /\ (ev.op = "tick" /\ ~running) => SummaryShown(St)
    /\ SummaryShown(St) => 5 * cps(clicks) = 100 * clicks

\* C12 witness: the summary is shown with a non-zero count, well after the
\* 5 seconds of the session have passed.
C12_Witness ==
    /\ SummaryShown(St)
    /\ clicks > 0
    /\ cps(clicks) = 20 * clicks
    /\ now > session.startedAt + DURATION_MS + TICK_MS

RECURSIVE TapN(_, _)
\* handleClick applied n times in a row.
TapN(s, n) == IF n = 0 THEN s ELSE TapN(handleClick(s), n - 1)

\* C13: a tap made while Running raises clicks by exactly 1 and changes
\* nothing else; n taps in a row raise it by exactly n.
C13_TapCountsOnce ==
    /\ (ev.op = "tap" /\ PhaseOf(ev.pre) = "Running") =>
          St = [ev.pre EXCEPT !.clicks = ev.pre.clicks + 1]
    /\ Phase = "Running" =>
          \A n \in 0..MaxClicks : TapN(St, n) = [St EXCEPT !.clicks = clicks + n]

\* C13 witness: a second tap was counted in a running session whose
\* countdown is under way.
C13_Witness ==
    /\ ev.op = "tap"
    /\ PhaseOf(ev.pre) = "Running"
    /\ ev.pre.clicks >= 1
    /\ clicks = ev.pre.clicks + 1
    /\ remaining < DURATION_MS

\* C14: while the component is mounted an interval is armed exactly while
\* running is true, and it is the one timerRef holds: the expiry tick and
\* reset cancel it, only start arms it.
C14_TimerIffRunning ==
    mounted =>
        /\ running <=> timers # NoTimers
        /\ running <=> timerRef # None
        /\ timerRef # None => DOMAIN timers = {timerRef}

\* C14 witness: reset ended a running session that had its interval armed.
C14_Witness ==
    /\ ev.op = "reset"
    /\ ev.pre.running
    /\ DOMAIN ev.pre.timers = {ev.pre.timerRef}
    /\ timers = NoTimers
    /\ ~running

\* C15: after the component is torn down no interval is armed, no tick
\* fires and running, clicks and remaining are never written again, from
\* whichever phase the teardown happens.
C15_NoMutationAfterTeardown ==
    ~mounted =>
        /\ timers = NoTimers
        /\ ev.op \in {"unmount", "advance"}
        /\ running = ev.pre.running
        /\ clicks = ev.pre.clicks
        /\ remaining = ev.pre.remaining

\* C15 witness: the component was torn down in a running session and the
\* clock has passed the end of that session without a tick.
C15_Witness ==
    /\ ~mounted
    /\ ev.op = "advance"
    /\ running
    /\ now >= endAtRef + TICK_MS

\* C16: reset in Idle changes nothing, and reset is idempotent in every
\* reachable state.
C16_ResetIdleNoOp ==
    /\ (ev.op = "reset" /\ PhaseOf(ev.pre) = "Idle") => St = ev.pre
    /\ PhaseOf(St) = "Idle" => reset(St) = St
    /\ reset(reset(St)) = reset(St)

\* C16 witness: reset was called in Idle after an earlier session.
C16_Witness ==
    /\ ev.op = "reset"
    /\ PhaseOf(ev.pre) = "Idle"
    /\ session.from # "none"

\* C17: whenever running is false remaining is exactly DURATION_MS or
\* exactly 0; `remaining = 0 and not running` holds after every expiry tick,
\* persists only through events that are not start or reset, and never
\* holds at initialization or after reset.
C17_PhaseUnambiguous ==
    /\ ~running => remaining \in {0, DURATION_MS}
    /\ running => remaining > 0
    /\ (ev.op = "tick" /\ now >= ev.pre.endAtRef) => SummaryShown(St)
    /\ SummaryShown(St) =>
          \/ ev.op = "tick" /\ ev.pre.running /\ now >= ev.pre.endAtRef
          \/ ev.op \in {"tap", "advance", "unmount"} /\ SummaryShown(ev.pre)
    /\ ev.op \in {"init", "reset"} => ~running /\ remaining = DURATION_MS

\* C17 witness: a tick at exactly the end time of a session left running
\* false and remaining 0.
C17_Witness ==
    /\ ev.op = "tick"
    /\ ev.pre.running
    /\ ev.pre.remaining > 0
    /\ now = ev.pre.endAtRef
    /\ ~running
    /\ remaining = 0

\* C18: a tick never raises remaining; remaining goes up only through start
\* or reset, and then to DURATION_MS.
C18_RemainingNonIncreasing ==
    /\ ev.op = "tick" => remaining <= ev.pre.remaining
    /\ remaining > ev.pre.remaining =>
          ev.op \in {"start", "reset"} /\ remaining = DURATION_MS

\* C18 witness: the second tick of a session lowered remaining again and
\* the session is still running.
C18_Witness ==
    /\ ev.op = "tick"
    /\ ev.pre.remaining < DURATION_MS
    /\ remaining < ev.pre.remaining
    /\ remaining > 0
====
